---------------------------- MODULE Spec2Model ----------------------------
(* A model of obs2web: the wikilink rewriter (content.rs, rewrite_links),  *)
(* the note-tree builder (template.rs, initiate_nodes_tree and             *)
(* find_or_create_node) and the per-file pipeline (lib.rs, build_site and  *)
(* content.rs, process_markdown_file).                                     *)
EXTENDS Integers, Sequences, FiniteSets, TLC

VARIABLES
    content, pos, new_content, last_index, in_link, in_asset, link_text, rpc,
    output_dir, tree_notes, root_node, tnext, tpc,
    vault_path, visited, notes, tags, written, rendered, spc

rvars == <<content, pos, new_content, last_index, in_link, in_asset, link_text, rpc>>

tvars == <<output_dir, tree_notes, root_node, tnext, tpc>>

svars == <<vault_path, visited, notes, tags, written, rendered, spc>>

vars == <<rvars, tvars, svars>>

(***************************************************************************)
(* Text.  A Rust &str is modelled as a sequence of characters; a character *)
(* is a one-element token.  EAcute stands for U+00E9, whose UTF-8 encoding *)
(* is two bytes long; every other character of the alphabet is one byte.   *)
(***************************************************************************)
MaxLen == 6

EAcute == "e'"

Alphabet == {"[", "]", "!", " ", "A", EAcute}

None == "None"

RECURSIVE SeqsUpTo(_, _)
SeqsUpTo(S, n) ==
    IF n = 0 THEN {<<>>}
    ELSE LET shorter == SeqsUpTo(S, n - 1)
         IN  shorter \cup {Append(s, c) : s \in {t \in shorter : Len(t) = n - 1}, c \in S}

len_utf8(c) == IF c = EAcute THEN 2 ELSE 1

RECURSIVE ByteLen(_)
ByteLen(s) == IF s = <<>> THEN 0 ELSE len_utf8(Head(s)) + ByteLen(Tail(s))

(* char_indices: the byte offset at which the k-th character (k from 1) starts *)
ByteOffset(s, k) == ByteLen(SubSeq(s, 1, k - 1))

(* chars().nth(n): the character with CHARACTER index n (from 0), or None *)
CharsNth(s, n) == IF n + 1 <= Len(s) THEN s[n + 1] ELSE None

is_char_boundary(s, b) == \E k \in 1..(Len(s) + 1) : ByteOffset(s, k) = b

(* &s[a..b] is defined when a <= b and both are character boundaries; it panics otherwise *)
SliceOk(s, a, b) == a <= b /\ is_char_boundary(s, a) /\ is_char_boundary(s, b)

Slice(s, a, b) ==
    LET first == CHOOSE k \in 1..(Len(s) + 1) : ByteOffset(s, k) = a
        last  == CHOOSE k \in 1..(Len(s) + 1) : ByteOffset(s, k) = b
    IN  SubSeq(s, first, last - 1)

to_lowercase_char(c) == IF c = "A" THEN "a" ELSE c

to_lowercase(s) == [k \in 1..Len(s) |-> to_lowercase_char(s[k])]

replace_space(s) == [k \in 1..Len(s) |-> IF s[k] = " " THEN "-" ELSE s[k]]

link_slug(t) == replace_space(to_lowercase(t))

html_link(t) ==
    <<"<", "a", " ", "h", "r", "e", "f", "=", "\"">> \o link_slug(t)
        \o <<".", "h", "t", "m", "l", "\"", ">">> \o t \o <<"<", "/", "a", ">">>

html_img(t) ==
    <<"<", "i", "m", "g", " ", "s", "r", "c", "=", "\"">> \o t \o <<"\"", ">">>

(***************************************************************************)
(* rewrite_links: one action per branch of the loop body, one for the      *)
(* final flush.  pos is the index of the character the loop is at; i is    *)
(* its byte offset, as char_indices yields it.                             *)
(***************************************************************************)
RewriteIdle ==
    /\ content = <<>>
    /\ pos = 1
    /\ new_content = <<>>
    /\ last_index = 0
    /\ in_link = FALSE
    /\ in_asset = FALSE
    /\ link_text = <<>>
    /\ rpc = "idle"

InLoop == rpc = "scan" /\ pos <= Len(content)

CurChar == content[pos]

CurByte == ByteOffset(content, pos)

IsOpenLink == CurChar = "[" /\ CharsNth(content, CurByte + 1) = "["

IsOpenAsset ==
    /\ CurChar = "!"
    /\ CharsNth(content, CurByte + 1) = "["
    /\ CharsNth(content, CurByte + 2) = "["

IsClose == CurChar = "]" /\ CharsNth(content, CurByte + 1) = "]"

OpenSpan_unguarded(asset) ==
    IF SliceOk(content, last_index, CurByte)
    THEN /\ in_link' = IF asset THEN in_link ELSE TRUE
         /\ in_asset' = IF asset THEN TRUE ELSE in_asset
         /\ new_content' = new_content \o Slice(content, last_index, CurByte)
         /\ last_index' = CurByte
         /\ pos' = pos + 1
         /\ rpc' = "scan"
    ELSE /\ rpc' = "panicked"
         /\ in_link' = IF asset THEN in_link ELSE TRUE
         /\ in_asset' = IF asset THEN TRUE ELSE in_asset
         /\ UNCHANGED <<new_content, last_index, pos>>

(* lines 19-23 and 25-29: flush the verbatim text and open a span, when Outside *)
OpenSpan(asset) ==
    IF ~in_link /\ ~in_asset
    THEN IF SliceOk(content, last_index, CurByte)
         THEN /\ in_link' = IF asset THEN in_link ELSE TRUE
              /\ in_asset' = IF asset THEN TRUE ELSE in_asset
              /\ new_content' = new_content \o Slice(content, last_index, CurByte)
              /\ last_index' = CurByte
              /\ pos' = pos + 1
              /\ rpc' = "scan"
         ELSE /\ rpc' = "panicked"
              /\ in_link' = IF asset THEN in_link ELSE TRUE
              /\ in_asset' = IF asset THEN TRUE ELSE in_asset
              /\ UNCHANGED <<new_content, last_index, pos>>
    ELSE /\ pos' = pos + 1
         /\ UNCHANGED <<in_link, in_asset, new_content, last_index, rpc>>

OpenLink ==
    /\ InLoop
    /\ IsOpenLink
    /\ OpenSpan(FALSE)
    /\ UNCHANGED <<content, link_text>>
    /\ UNCHANGED <<tvars, svars>>

OpenAsset ==
    /\ InLoop
    /\ ~IsOpenLink
    /\ IsOpenAsset
    /\ OpenSpan(TRUE)
    /\ UNCHANGED <<content, link_text>>
    /\ UNCHANGED <<tvars, svars>>

(* lines 30-44 *)
CloseSpan ==
    /\ InLoop
    /\ ~IsOpenLink
    /\ ~IsOpenAsset
    /\ IsClose
    /\ IF in_link
       THEN /\ in_link' = FALSE
            /\ new_content' = new_content \o html_link(link_text)
            /\ link_text' = <<>>
            /\ last_index' = CurByte + 2
            /\ UNCHANGED in_asset
       ELSE IF in_asset
       THEN /\ in_asset' = FALSE
            /\ new_content' = new_content \o html_img(link_text)
            /\ link_text' = <<>>
            /\ last_index' = CurByte + 2
            /\ UNCHANGED in_link
       ELSE UNCHANGED <<in_link, in_asset, new_content, link_text, last_index>>
    /\ pos' = pos + 1
    /\ UNCHANGED <<content, rpc>>
    /\ UNCHANGED <<tvars, svars>>

(* lines 45-48 *)
Accumulate ==
    /\ InLoop
    /\ ~IsOpenLink
    /\ ~IsOpenAsset
    /\ ~IsClose
    /\ in_link \/ in_asset
    /\ link_text' = IF CurChar # "[" /\ CurChar # "!" THEN Append(link_text, CurChar) ELSE link_text
    /\ pos' = pos + 1
    /\ UNCHANGED <<content, new_content, last_index, in_link, in_asset, rpc>>
    /\ UNCHANGED <<tvars, svars>>

(* lines 49-51 *)
SkipOutside ==
    /\ InLoop
    /\ ~IsOpenLink
    /\ ~IsOpenAsset
    /\ ~IsClose
    /\ ~(in_link \/ in_asset)
    /\ pos' = pos + 1
    /\ UNCHANGED <<content, new_content, last_index, in_link, in_asset, link_text, rpc>>
    /\ UNCHANGED <<tvars, svars>>

FlushTail_drops_open ==
    /\ rpc = "scan"
    /\ pos > Len(content)
    /\ IF in_link \/ in_asset
       THEN /\ rpc' = "done"
            /\ UNCHANGED new_content
       ELSE IF SliceOk(content, last_index, ByteLen(content))
       THEN /\ new_content' = new_content \o Slice(content, last_index, ByteLen(content))
            /\ rpc' = "done"
       ELSE /\ rpc' = "panicked"
            /\ UNCHANGED new_content
    /\ UNCHANGED <<content, pos, last_index, in_link, in_asset, link_text>>
    /\ UNCHANGED <<tvars, svars>>

(* line 53: the tail, &content[last_index..] *)
FlushTail ==
    /\ rpc = "scan"
    /\ pos > Len(content)
    /\ IF SliceOk(content, last_index, ByteLen(content))
       THEN /\ new_content' = new_content \o Slice(content, last_index, ByteLen(content))
            /\ rpc' = "done"
       ELSE /\ rpc' = "panicked"
            /\ UNCHANGED new_content
    /\ UNCHANGED <<content, pos, last_index, in_link, in_asset, link_text>>
    /\ UNCHANGED <<tvars, svars>>

(***************************************************************************)
(* rewrite_links as a function of its input, for the callers of the        *)
(* pipeline: the same branches, folded over the characters.  A scan state  *)
(* is the record of the locals; ok turns FALSE where a slice panics.       *)
(***************************************************************************)
ScanStart ==
    [new_content |-> <<>>, last_index |-> 0, in_link |-> FALSE, in_asset |-> FALSE,
     link_text |-> <<>>, ok |-> TRUE]

(* lines 18-51: the loop body at the k-th character of s *)
scan_step(s, k, st) ==
    LET c    == s[k]
        i    == ByteOffset(s, k)
        open == [st EXCEPT !.new_content = @ \o Slice(s, st.last_index, i), !.last_index = i]
    IN  IF ~st.ok THEN st
        ELSE IF c = "[" /\ CharsNth(s, i + 1) = "["
        THEN IF st.in_link \/ st.in_asset THEN st
             ELSE IF ~SliceOk(s, st.last_index, i) THEN [st EXCEPT !.ok = FALSE]
             ELSE [open EXCEPT !.in_link = TRUE]
        ELSE IF c = "!" /\ CharsNth(s, i + 1) = "[" /\ CharsNth(s, i + 2) = "["
        THEN IF st.in_link \/ st.in_asset THEN st
             ELSE IF ~SliceOk(s, st.last_index, i) THEN [st EXCEPT !.ok = FALSE]
             ELSE [open EXCEPT !.in_asset = TRUE]
        ELSE IF c = "]" /\ CharsNth(s, i + 1) = "]"
        THEN IF st.in_link
             THEN [st EXCEPT !.in_link = FALSE, !.link_text = <<>>, !.last_index = i + 2,
                             !.new_content = @ \o html_link(st.link_text)]
             ELSE IF st.in_asset
             THEN [st EXCEPT !.in_asset = FALSE, !.link_text = <<>>, !.last_index = i + 2,
                             !.new_content = @ \o html_img(st.link_text)]
             ELSE st
        ELSE IF (st.in_link \/ st.in_asset) /\ c # "[" /\ c # "!"
        THEN [st EXCEPT !.link_text = Append(@, c)]
        ELSE st

RECURSIVE scan(_, _)
scan(s, k) == IF k = 0 THEN ScanStart ELSE scan_step(s, k, scan(s, k - 1))

(* the call returns: no slice of the loop or of line 53 panics *)
rewrite_links_ok(s) ==
    LET st == scan(s, Len(s))
    IN  st.ok /\ SliceOk(s, st.last_index, ByteLen(s))

(* lines 10-55: the returned string *)
rewrite_links(s) ==
    LET st == scan(s, Len(s))
    IN  st.new_content \o Slice(s, st.last_index, ByteLen(s))

(***************************************************************************)
(* Paths.  A path string is a sequence of characters with "/" between its  *)
(* segments; a segment (a folder or file name) is a sequence of characters.*)
(***************************************************************************)
Sep == "/"

HasSep(s) == \E k \in 1..Len(s) : s[k] = Sep

RECURSIVE FirstSepFrom(_, _)
FirstSepFrom(s, k) == IF s[k] = Sep THEN k ELSE FirstSepFrom(s, k + 1)

FirstSep(s) == FirstSepFrom(s, 1)

(* str::split("/") *)
RECURSIVE split(_)
split(s) ==
    IF ~HasSep(s) THEN <<s>>
    ELSE LET k == FirstSep(s)
         IN  <<SubSeq(s, 1, k - 1)>> \o split(SubSeq(s, k + 1, Len(s)))

RECURSIVE join(_)
join(segs) ==
    IF segs = <<>> THEN <<>>
    ELSE IF Len(segs) = 1 THEN segs[1]
    ELSE segs[1] \o <<Sep>> \o join(Tail(segs))

RootDir == <<Sep>>

CurDir == <<".">>

RECURSIVE DropInner(_)
DropInner(segs) ==
    IF segs = <<>> THEN <<>>
    ELSE IF Head(segs) = <<>> \/ Head(segs) = CurDir THEN DropInner(Tail(segs))
    ELSE <<Head(segs)>> \o DropInner(Tail(segs))

(* Path::components: a leading "/" is RootDir, a leading "." is CurDir,
   empty segments and inner "." segments are dropped *)
components(s) ==
    IF s = <<>> THEN <<>>
    ELSE LET segs == split(s)
         IN  IF Head(segs) = <<>> THEN <<RootDir>> \o DropInner(Tail(segs))
             ELSE IF Head(segs) = CurDir THEN <<CurDir>> \o DropInner(Tail(segs))
             ELSE DropInner(segs)

IsPrefix(p, q) == Len(p) <= Len(q) /\ SubSeq(q, 1, Len(p)) = p

(* Path::strip_prefix is Ok when base's components lead path's ... *)
strip_prefix_ok(path, base) == IsPrefix(components(base), components(path))

(* ... and then yields the remaining components *)
strip_prefix(path, base) ==
    LET all == components(path)
    IN  join(SubSeq(all, Len(components(base)) + 1, Len(all)))

(* PathBuf::join of a relative path onto a directory: a separator is added
   unless the directory is empty or already ends with one (joining the empty
   path leaves a trailing separator) *)
path_join(dir, rel) ==
    IF dir = <<>> \/ dir[Len(dir)] = Sep THEN dir \o rel
    ELSE dir \o <<Sep>> \o rel

(***************************************************************************)
(* The note tree (domain.rs: Node, Note; template.rs: initiate_nodes_tree,  *)
(* find_or_create_node).                                                    *)
(***************************************************************************)
Node(title, children, held) == [title |-> title, nodes |-> children, notes |-> held]

Note(title, path) == [title |-> title, path |-> path]

pop_back(parts) == IF parts = <<>> THEN <<>> ELSE SubSeq(parts, 1, Len(parts) - 1)

pop_front(parts) == IF parts = <<>> THEN <<>> ELSE Tail(parts)

(* lines 64-66: the folder chain the builder walks for a note *)
path_parts(n) == pop_front(pop_back(split(n.path)))

position_never(nodes, cur_folder) == 0

(* line 81: iter().position(|n| n.title == cur_folder), 0 for None *)
position(nodes, cur_folder) ==
    IF \E k \in 1..Len(nodes) : nodes[k].title = cur_folder
    THEN CHOOSE k \in 1..Len(nodes) :
             /\ nodes[k].title = cur_folder
             /\ \A j \in 1..(k - 1) : nodes[j].title # cur_folder
    ELSE 0

push_front(v, x) == <<x>> \o v

push_if_absent(v, x) == IF \E k \in 1..Len(v) : v[k] = x THEN v ELSE Append(v, x)

(* Vec::push *)
push(v, x) == Append(v, x)

(* find_or_create_node followed by the push of line 70 on the returned
   reference: the node with the chain resolved (created where missing) and
   the note appended to the resolved node *)
RECURSIVE find_or_create_node(_, _, _)
find_or_create_node(parts, node, note) ==
    IF parts = <<>> THEN [node EXCEPT !.notes = push(@, note)]
    ELSE LET cur_folder == Head(parts)
             found      == position(node.nodes, cur_folder)
             grown      == IF found # 0 THEN node.nodes
                           ELSE push(node.nodes, Node(cur_folder, <<>>, <<>>))
             idx        == IF found # 0 THEN found ELSE Len(grown)
         IN  [node EXCEPT !.nodes =
                 [grown EXCEPT ![idx] = find_or_create_node(Tail(parts), grown[idx], note)]]

EmptyTags == [t \in {} |-> <<>>]

SiteIdle ==
    /\ vault_path = <<>>
    /\ visited = <<>>
    /\ notes = <<>>
    /\ tags = EmptyTags
    /\ written = <<>>
    /\ rendered = <<>>
    /\ spc = "idle"

Roots == {<<"o">>, <<"o", Sep, "s">>, <<Sep, "o">>, <<".", Sep, "o">>}

FolderChains == {<<>>, <<"a">>, <<"b">>, <<"a", Sep, "b">>, <<"b", Sep, "a">>}

FileNames == {<<"1">>, <<"2">>}

MaxNotes == 3

(* the notes process_markdown_file can register under a given output root *)
NotesUnder(root) ==
    {Note(f, path_join(path_join(root, c), f)) : c \in FolderChains, f \in FileNames}

TreeInit ==
    /\ output_dir \in Roots
    /\ tree_notes \in SeqsUpTo(NotesUnder(output_dir), MaxNotes)
    /\ root_node = Node(output_dir, <<>>, <<>>)
    /\ tnext = 1
    /\ tpc = "build"
    /\ RewriteIdle
    /\ SiteIdle

TreeIdle ==
    /\ output_dir = <<>>
    /\ tree_notes = <<>>
    /\ root_node = Node(<<>>, <<>>, <<>>)
    /\ tnext = 1
    /\ tpc = "idle"

(* lines 63-71: one iteration of for_each *)
InsertNote ==
    /\ tpc = "build"
    /\ tnext <= Len(tree_notes)
    /\ LET n == tree_notes[tnext]
       IN  IF ~strip_prefix_ok(n.path, output_dir)
           THEN /\ tpc' = "panicked"
                /\ root_node' = find_or_create_node(path_parts(n), root_node, n)
                /\ UNCHANGED tnext
           ELSE /\ root_node' = find_or_create_node(path_parts(n), root_node,
                                     Note(n.title, strip_prefix(n.path, output_dir)))
                /\ tnext' = tnext + 1
                /\ UNCHANGED tpc
    /\ UNCHANGED <<output_dir, tree_notes>>
    /\ UNCHANGED <<rvars, svars>>

(* line 72 *)
ReturnRoot ==
    /\ tpc = "build"
    /\ tnext > Len(tree_notes)
    /\ tpc' = "done"
    /\ UNCHANGED <<output_dir, tree_notes, root_node, tnext>>
    /\ UNCHANGED <<rvars, svars>>

TreeNext ==
    \/ InsertNote
    \/ ReturnRoot

SpecTree == TreeInit /\ [][TreeNext]_vars

(***************************************************************************)
(* The pipeline (lib.rs: build_site; content.rs: process_markdown_file;     *)
(* fs.rs: process_asset; template.rs: render_index).                       *)
(***************************************************************************)
HasDot(name) == \E k \in 2..Len(name) : name[k] = "."

LastDot(name) == CHOOSE k \in 2..Len(name) : name[k] = "." /\ \A j \in (k + 1)..Len(name) : name[j] # "."

(* Path::extension: the text after the last dot of the file name, <<>> for None *)
extension(name) == IF HasDot(name) THEN SubSeq(name, LastDot(name) + 1, Len(name)) ELSE <<>>

(* Path::file_stem *)
file_stem(name) == IF HasDot(name) THEN SubSeq(name, 1, LastDot(name) - 1) ELSE name

(* PathBuf::set_extension on a file name *)
set_extension(name, ext) == file_stem(name) \o <<".">> \o ext

(* str::replace("?", "") *)
RECURSIVE remove_question(_)
remove_question(name) ==
    IF name = <<>> THEN <<>>
    ELSE IF Head(name) = "?" THEN remove_question(Tail(name))
    ELSE <<Head(name)>> \o remove_question(Tail(name))

(* Path::parent: the path without its last component *)
parent(path) == join(pop_back(components(path)))

(* Path::file_name is Some for a path whose last component is a normal name *)
has_file_name(path) ==
    /\ components(path) # <<>>
    /\ components(path)[Len(components(path))] \notin {RootDir, CurDir}

entry_push_dedup(m, tag, note) ==
    IF tag \in DOMAIN m
    THEN IF \E k \in 1..Len(m[tag]) : m[tag][k] = note THEN m
         ELSE [m EXCEPT ![tag] = Append(@, note)]
    ELSE m @@ (tag :> <<note>>)

(* content.rs line 151: tags.entry(tag).or_default().push(note.clone()) *)
entry_push(m, tag, note) ==
    IF tag \in DOMAIN m THEN [m EXCEPT ![tag] = push(@, note)]
    ELSE m @@ (tag :> <<note>>)

(* content.rs lines 149-153 *)
RECURSIVE register_tags(_, _, _)
register_tags(m, tag_list, note) ==
    IF tag_list = <<>> THEN m
    ELSE register_tags(entry_push(m, Head(tag_list), note), Tail(tag_list), note)

(* An Option is <<>> for None and <<v>> for Some(v). *)
Frontmatter(title, date, tag_list) == [title |-> title, date |-> date, tags |-> tag_list]

TitleAlpha == <<"A", "l", "p", "h", "a">>

NoTitleXY == Frontmatter(<<>>, <<>>, << <<"x", "y">> >>)

AlphaXX == Frontmatter(<<TitleAlpha>>, <<>>, << <<"x", "x">> >>)

AlphaIntro == Frontmatter(<<TitleAlpha>>, <<>>, << <<"intro">> >>)

Frontmatters ==
    { <<>>,
      <<Frontmatter(<<TitleAlpha>>, <<>>, <<>>)>>,
      <<NoTitleXY>>,
      <<AlphaXX>>,
      <<AlphaIntro>> }

PlainBody == <<"b">>

LinkBody == <<"[", "[", "b", "]", "]">>

MultiByteBody == <<EAcute, "[", "]", "[", "]", "[">>

Bodies == {PlainBody, LinkBody, MultiByteBody}

Vaults == {<<"v">>, <<".">>}

VaultDirs == {<<>>, <<"n", "o", "t", "e", "s">>}

VaultNames ==
    {<<"a", ".", "m", "d">>, <<"a", "?", ".", "m", "d">>, <<"b", ".", "m", "d">>,
     <<"c", ".", "p", "n", "g">>, <<"a", ".", "h", "t", "m", "l">>}

(* lib.rs line 52 *)
is_markdown(name) == extension(name) = <<"m", "d">>

(* what the Markdown file of each name holds in the vaults explored: the
   frontmatter block (or none) and the body *)
FileContents(name) ==
    {fc \in Frontmatters \X Bodies :
        CASE name = <<"a", ".", "m", "d">> ->
                 fc \in {<< <<NoTitleXY>>, PlainBody >>, << <<AlphaIntro>>, LinkBody >>}
          [] name = <<"a", "?", ".", "m", "d">> ->
                 fc[2] = PlainBody /\ fc[1] # <<>> /\ fc[1][1].title # <<>> /\ fc[1] # <<AlphaIntro>>
          [] OTHER -> fc[1] = <<>> /\ fc[2] # LinkBody}

MaxFiles == 2

(* the file's path as WalkDir yields it *)
entry_path(e) == path_join(path_join(vault_path, e.dir), e.name)

(* lib.rs line 44 *)
relative_path(e) == strip_prefix(entry_path(e), vault_path)

(* lib.rs line 55: the output_dir argument of process_markdown_file *)
md_output_dir(e) == path_join(output_dir, parent(relative_path(e)))

(* content.rs lines 120-138: html_path *)
html_path(e) ==
    LET file_name == IF has_file_name(parent(entry_path(e)))
                     THEN remove_question(e.name) ELSE e.name
    IN  path_join(md_output_dir(e), set_extension(file_name, <<"h", "t", "m", "l">>))

title_of_stem(e) == file_stem(e.name)

(* content.rs lines 105-114 *)
title_of(e) ==
    IF e.fm # <<>> /\ e.fm[1].title # <<>> THEN e.fm[1].title[1] ELSE file_stem(e.name)

(* content.rs lines 140-143 *)
note_of(e) == Note(title_of(e), html_path(e))

declared_tags(e) == IF e.fm # <<>> /\ e.fm[1].tags # <<>> THEN e.fm[1].tags[1] ELSE <<>>

(* lib.rs line 50 *)
asset_output_path(e) == path_join(output_dir, relative_path(e))

Files == {i \in 1..Len(visited) : visited[i].kind = "file"}

Seen(kind, dir, name) ==
    \E i \in 1..Len(visited) :
        visited[i].kind = kind /\ visited[i].dir = dir /\ visited[i].name = name

Visit(kind, dir, name, fm, body, outcome) ==
    [kind |-> kind, dir |-> dir, name |-> name, fm |-> fm, body |-> body, outcome |-> outcome]

CanYield_isolated(dir, name) ==
    /\ spc \in {"walk", "failed"}
    /\ Seen("dir", dir, <<>>)
    /\ ~Seen("file", dir, name)
    /\ Cardinality(Files) < MaxFiles

(* WalkDir yields a directory before what it holds, and each path once; the
   loop asks for the next entry only while no step has failed *)
CanYield(dir, name) ==
    /\ spc = "walk"
    /\ Seen("dir", dir, <<>>)
    /\ ~Seen("file", dir, name)
    /\ Cardinality(Files) < MaxFiles

SiteInit ==
    /\ vault_path \in Vaults
    /\ output_dir \in Roots
    /\ visited = <<>>
    /\ notes = <<>>
    /\ tags = EmptyTags
    /\ written = <<>>
    /\ rendered = <<>>
    /\ spc = "walk"
    /\ tree_notes = <<>>
    /\ root_node = Node(<<>>, <<>>, <<>>)
    /\ tnext = 1
    /\ tpc = "idle"
    /\ RewriteIdle

(* lib.rs lines 39-41: a directory entry is skipped *)
SkipDirectory ==
    /\ spc = "walk"
    /\ \E d \in VaultDirs :
           /\ ~Seen("dir", d, <<>>)
           /\ d # <<>> => Seen("dir", <<>>, <<>>)
           /\ visited' = Append(visited, Visit("dir", d, <<>>, <<>>, <<>>, "ok"))
    /\ UNCHANGED <<vault_path, notes, tags, written, rendered, spc>>
    /\ UNCHANGED <<rvars, tvars>>

(* Path::parent is None for the empty path and for the root *)
parent_ok(path) ==
    /\ components(path) # <<>>
    /\ components(path)[Len(components(path))] # RootDir

RECURSIVE dotdots(_)
dotdots(depth) ==
    IF depth = 1 THEN <<".", ".">> ELSE <<".", ".", Sep>> \o dotdots(depth - 1)

(* content.rs lines 174-193 *)
href_to_root_style_css(file_path) ==
    LET depth == IF parent_ok(file_path) THEN Len(components(parent(file_path))) ELSE 0
    IN  IF depth = 0 THEN <<".">> ELSE dotdots(depth)

(* content.rs line 102, comrak::markdown_to_html with raw HTML allowed: a
   one-line body is a paragraph, inline HTML is passed through *)
markdown_to_html(s) ==
    IF s = <<>> THEN <<>> ELSE <<"<", "p", ">">> \o s \o <<"<", "/", "p", ">", "\n">>

(* content.rs lines 145-158: the context handed to base.html *)
page_context(e) ==
    LET common == ("title" :> title_of(e))
                    @@ ("relative_path" :> href_to_root_style_css(md_output_dir(e)))
                    @@ ("content" :> markdown_to_html(rewrite_links(e.body)))
    IN  IF e.fm # <<>>
        THEN common @@ ("date" :> e.fm[1].date) @@ ("tags" :> e.fm[1].tags)
        ELSE common

Page(path, context) == [path |-> path, context |-> context]

MdOutcomes == {"ok", "read", "frontmatter", "panic", "mkdir", "render", "write"}

(* lib.rs lines 52-60 with process_markdown_file: the file is read (84), its
   frontmatter deserialised (88-99), its links rewritten (101, which panics on
   some bodies), the output directory made (132), the note's tags registered
   (149-153), the template rendered (160), the page written (167) and the
   note registered (170); the first failing step ends the run *)
ProcessMarkdownFile ==
    \E d \in VaultDirs, name \in VaultNames :
        /\ CanYield(d, name)
        /\ is_markdown(name)
        /\ \E fc \in FileContents(name), outcome \in MdOutcomes :
               LET e == Visit("file", d, name, fc[1], fc[2], outcome)
                   note == note_of(e)
                   reached_render == outcome \in {"ok", "render", "write"}
               IN  /\ outcome = "frontmatter" => e.fm # <<>>
                   /\ outcome \notin {"read", "frontmatter"} =>
                          (outcome = "panic" <=> ~rewrite_links_ok(e.body))
                   /\ outcome = "mkdir" => has_file_name(parent(entry_path(e)))
                   /\ visited' = Append(visited, e)
                   /\ tags' = IF reached_render THEN register_tags(tags, declared_tags(e), note)
                              ELSE tags
                   /\ rendered' = IF reached_render
                                  THEN Append(rendered, Page(note.path, page_context(e)))
                                  ELSE rendered
                   /\ written' = IF outcome = "ok" THEN Append(written, note.path) ELSE written
                   /\ notes' = IF outcome = "ok" THEN push(notes, note) ELSE notes
                   /\ spc' = CASE outcome = "ok" -> "walk"
                               [] outcome = "panic" -> "panicked"
                               [] OTHER -> "failed"
        /\ UNCHANGED vault_path
        /\ UNCHANGED <<rvars, tvars>>

(* lib.rs lines 61-63 with process_asset (fs.rs lines 13-20) *)
ProcessAsset ==
    \E d \in VaultDirs, name \in VaultNames, outcome \in {"ok", "copy"} :
        LET e == Visit("file", d, name, <<>>, <<>>, outcome)
        IN  /\ CanYield(d, name)
            /\ ~is_markdown(name)
            /\ visited' = Append(visited, e)
            /\ written' = IF outcome = "ok" THEN Append(written, asset_output_path(e))
                          ELSE written
            /\ spc' = IF outcome = "ok" THEN "walk" ELSE "failed"
            /\ UNCHANGED <<vault_path, notes, tags, rendered>>
            /\ UNCHANGED <<rvars, tvars>>

(* template.rs lines 57-73 as a function of the note list *)
RECURSIVE build_tree(_, _, _)
build_tree(note_list, dir, root) ==
    IF note_list = <<>> THEN root
    ELSE build_tree(Tail(note_list), dir,
             find_or_create_node(path_parts(Head(note_list)), root,
                 Note(Head(note_list).title, strip_prefix(Head(note_list).path, dir))))

initiate_nodes_tree(note_list, dir) == build_tree(note_list, dir, Node(dir, <<>>, <<>>))

FinishSite_in_loop ==
    /\ spc = "walk"
    /\ Seen("dir", <<>>, <<>>)
    /\ ~(\E k \in 1..Len(written) : written[k] = path_join(output_dir, <<"index.html">>))
    /\ spc' = "walk"
    /\ written' = written \o <<path_join(output_dir, <<"style.css">>),
                                path_join(output_dir, <<"index.html">>)>>
    /\ root_node' = initiate_nodes_tree(notes, output_dir)
    /\ UNCHANGED <<vault_path, visited, notes, tags, rendered>>
    /\ UNCHANGED <<output_dir, tree_notes, tnext, tpc>>
    /\ UNCHANGED rvars

(* lib.rs lines 66-71: the walk is over; style.css is copied (unwrap), the
   index is rendered from the note list and written *)
FinishSite ==
    /\ spc = "walk"
    /\ Seen("dir", <<>>, <<>>)
    /\ \E outcome \in {"ok", "style", "render", "write"} :
           /\ spc' = CASE outcome = "ok" -> "done"
                       [] outcome = "style" -> "panicked"
                       [] OTHER -> "failed"
           /\ written' = CASE outcome = "ok" ->
                                written \o <<path_join(output_dir, <<"style.css">>),
                                             path_join(output_dir, <<"index.html">>)>>
                           [] outcome = "style" -> written
                           [] OTHER -> Append(written, path_join(output_dir, <<"style.css">>))
           /\ root_node' = IF outcome = "style" THEN root_node
                           ELSE initiate_nodes_tree(notes, output_dir)
    /\ UNCHANGED <<vault_path, visited, notes, tags, rendered>>
    /\ UNCHANGED <<output_dir, tree_notes, tnext, tpc>>
    /\ UNCHANGED rvars

SiteNext ==
    \/ SkipDirectory
    \/ ProcessMarkdownFile
    \/ ProcessAsset
    \/ FinishSite

SpecSite == SiteInit /\ [][SiteNext]_vars

RewriteInit ==
    /\ content \in SeqsUpTo(Alphabet, MaxLen)
    /\ pos = 1
    /\ new_content = <<>>
    /\ last_index = 0
    /\ in_link = FALSE
    /\ in_asset = FALSE
    /\ link_text = <<>>
    /\ rpc = "scan"
    /\ TreeIdle
    /\ SiteIdle

RewriteNext ==
    \/ OpenLink
    \/ OpenAsset
    \/ CloseSpan
    \/ Accumulate
    \/ SkipOutside
    \/ FlushTail

SpecRewrite == RewriteInit /\ [][RewriteNext]_vars

(***************************************************************************)
(* Statements about rewrite_links.  The expected markup is written out     *)
(* here from the documented contract, independently of html_link/html_img. *)
(***************************************************************************)
HasPair(s, c) == \E k \in 1..(Len(s) - 1) : s[k] = c /\ s[k + 1] = c

PlainText(s) == ~HasPair(s, "[") /\ ~HasPair(s, "]")

(* the captured text of a span drops every [ and ! (lines 46-48); the statements
   below take T free of both, so that "T unchanged" is not at stake *)
NoMarkerChar(t) == \A k \in 1..Len(t) : t[k] # "[" /\ t[k] # "!"

EndsWith(s, c) == Len(s) > 0 /\ s[Len(s)] = c

ExpectedSlug(t) ==
    [k \in 1..Len(t) |-> IF t[k] = " " THEN "-" ELSE IF t[k] = "A" THEN "a" ELSE t[k]]

ExpectedAnchor(t) ==
    <<"<", "a", " ", "h", "r", "e", "f", "=", "\"">> \o ExpectedSlug(t)
        \o <<".", "h", "t", "m", "l", "\"", ">">> \o t \o <<"<", "/", "a", ">">>

ExpectedImg(t) ==
    <<"<", "i", "m", "g", " ", "s", "r", "c", "=", "\"">> \o t \o <<"\"", ">">>

Finished == rpc # "scan"

(* the plain prefix before a span that starts at character k *)
PrefixBefore(k) == SubSeq(content, 1, k - 1)

OutsideBefore(k) ==
    /\ PlainText(PrefixBefore(k))
    /\ ~EndsWith(PrefixBefore(k), "[")
    /\ ~EndsWith(PrefixBefore(k), "!")

(* content is P [[ T ]] with the link marker at character k and T free of ]] *)
IsLinkSpanAt(k) ==
    /\ k + 3 <= Len(content)
    /\ content[k] = "[" /\ content[k + 1] = "["
    /\ content[Len(content) - 1] = "]" /\ content[Len(content)] = "]"
    /\ OutsideBefore(k)
    /\ ~HasPair(SubSeq(content, k + 2, Len(content) - 1), "]")
    /\ NoMarkerChar(SubSeq(content, k + 2, Len(content) - 2))

(* content is P ![[ T ]] with the asset marker at character k and T free of ]] *)
IsAssetSpanAt(k) ==
    /\ k + 4 <= Len(content)
    /\ content[k] = "!" /\ content[k + 1] = "[" /\ content[k + 2] = "["
    /\ content[Len(content) - 1] = "]" /\ content[Len(content)] = "]"
    /\ PlainText(PrefixBefore(k))
    /\ ~EndsWith(PrefixBefore(k), "[")
    /\ ~HasPair(SubSeq(content, k + 3, Len(content) - 1), "]")
    /\ NoMarkerChar(SubSeq(content, k + 3, Len(content) - 2))

(* C1: identity on plain text. For every input with no [[ , no ![[ and no ]]
   (multi-byte characters, lone brackets and lone ! included), rewrite_links
   returns exactly the input. *)
C1_IdentityOnPlainText ==
    (Finished /\ PlainText(content)) => (rpc = "done" /\ new_content = content)

(* C2: link replacement. For every T without ]], the input P [[T]] (P plain,
   so the span is met Outside) is rewritten to P <a href="S.html">T</a>, T
   unchanged, S = T lower-cased with spaces turned into hyphens. *)
C2_LinkReplacement ==
    \A k \in 1..Len(content) :
        (Finished /\ IsLinkSpanAt(k)) =>
            /\ rpc = "done"
            /\ new_content = PrefixBefore(k)
                   \o ExpectedAnchor(SubSeq(content, k + 2, Len(content) - 2))

(* C3: asset replacement. For every T without ]], the input P ![[T]] is
   rewritten to P <img src="T">, T literal, and the leading ! is gone. *)
C3_AssetReplacement ==
    \A k \in 1..Len(content) :
        (Finished /\ IsAssetSpanAt(k)) =>
            /\ rpc = "done"
            /\ new_content = PrefixBefore(k)
                   \o ExpectedImg(SubSeq(content, k + 3, Len(content) - 2))

(* C5: totality. rewrite_links never panics: every slice it takes of the
   input lies within bounds and on character boundaries. *)
C5_RewriterTotal == rpc # "panicked"

FirstPair(s, c) == CHOOSE k \in 1..(Len(s) - 1) :
    /\ s[k] = c /\ s[k + 1] = c
    /\ \A j \in 1..(k - 1) : ~(s[j] = c /\ s[j + 1] = c)

(* the input read as plain segments separated by closed spans, leftmost first *)
RECURSIVE Shaped(_)
Shaped(s) ==
    IF ~HasPair(s, "[") THEN ~HasPair(s, "]")
    ELSE LET k     == FirstPair(s, "[")
             asset == k > 1 /\ s[k - 1] = "!"
             p     == SubSeq(s, 1, IF asset THEN k - 2 ELSE k - 1)
             rest  == SubSeq(s, k + 2, Len(s))
         IN  /\ ~HasPair(p, "]")
             /\ HasPair(rest, "]")
             /\ LET m == FirstPair(rest, "]")
                IN  /\ NoMarkerChar(SubSeq(rest, 1, m - 1))
                    /\ Shaped(SubSeq(rest, m + 2, Len(rest)))

RECURSIVE ExpectedRewrite(_)
ExpectedRewrite(s) ==
    IF ~HasPair(s, "[") THEN s
    ELSE LET k     == FirstPair(s, "[")
             asset == k > 1 /\ s[k - 1] = "!"
             p     == SubSeq(s, 1, IF asset THEN k - 2 ELSE k - 1)
             rest  == SubSeq(s, k + 2, Len(s))
             m     == FirstPair(rest, "]")
             t     == SubSeq(rest, 1, m - 1)
         IN  p \o (IF asset THEN ExpectedImg(t) ELSE ExpectedAnchor(t))
               \o ExpectedRewrite(SubSeq(rest, m + 2, Len(rest)))

(* C4: independent spans and verbatim text. For an input made of plain
   segments p0 .. pn separated by n closed spans, the output is p0,
   markup(span1), p1, .., markup(span_n), pn: each span rewritten on its own,
   every character outside a span kept once, unchanged and in place. *)
C4_IndependentSpans ==
    (Finished /\ Shaped(content)) =>
        (rpc = "done" /\ new_content = ExpectedRewrite(content))

UnterminatedLinkAt(k) ==
    /\ k + 1 <= Len(content)
    /\ content[k] = "[" /\ content[k + 1] = "["
    /\ OutsideBefore(k)
    /\ ~HasPair(SubSeq(content, k, Len(content)), "]")

UnterminatedAssetAt(k) ==
    /\ k + 2 <= Len(content)
    /\ content[k] = "!" /\ content[k + 1] = "[" /\ content[k + 2] = "["
    /\ PlainText(PrefixBefore(k))
    /\ ~EndsWith(PrefixBefore(k), "[")
    /\ ~HasPair(SubSeq(content, k, Len(content)), "]")

NoMarkup(out) == \A j \in 1..Len(out) : out[j] # "<"

(* C6: unterminated span. Once an opening [[ or ![[ with no ]] after it has
   been met Outside, the scanner is InLink/InAsset and stays there to the end
   of the input, no <a ..> or <img ..> is emitted, and the call does not fail. *)
C6_UnterminatedSpan ==
    \A k \in 1..Len(content) :
        /\ (UnterminatedLinkAt(k) /\ pos > k) =>
               (in_link /\ ~in_asset /\ rpc # "panicked" /\ NoMarkup(new_content))
        /\ (UnterminatedAssetAt(k) /\ pos > k) =>
               (in_asset /\ ~in_link /\ rpc # "panicked" /\ NoMarkup(new_content))

InSpan == in_link \/ in_asset

(* a [[ or ![[ of the text starts at character j *)
MarkerAt(j) ==
    \/ j + 1 <= Len(content) /\ content[j] = "[" /\ content[j + 1] = "["
    \/ j + 2 <= Len(content) /\ content[j] = "!" /\ content[j + 1] = "[" /\ content[j + 2] = "["

(* a ]] of the text starts at character j *)
CloseAt(j) == j + 1 <= Len(content) /\ content[j] = "]" /\ content[j + 1] = "]"

(* the character at which the open span was entered *)
OpenerAt == CHOOSE k \in 1..Len(content) : ByteOffset(content, k) = last_index

(* the open span has met a further opening marker after its own *)
FurtherMarkerSeen ==
    /\ InSpan
    /\ \E j \in (OpenerAt + (IF in_asset THEN 2 ELSE 1))..(pos - 1) : MarkerAt(j)

C14_Step ==
    (rpc = "scan" /\ pos <= Len(content)) =>
        /\ (in_link' /\ ~in_link) => (~in_asset /\ ~in_asset')
        /\ (in_asset' /\ ~in_asset) => (~in_link /\ ~in_link')
        /\ (InSpan /\ MarkerAt(pos)) =>
               UNCHANGED <<in_link, in_asset, new_content, last_index>>
        /\ (FurtherMarkerSeen /\ CloseAt(pos)) =>
               /\ ~in_link' /\ ~in_asset'
               /\ new_content' = new_content \o (IF in_link THEN ExpectedAnchor(link_text)
                                                  ELSE ExpectedImg(link_text))

(* C14: opening markers are inert inside an open span. The scanner enters
   InLink or InAsset only from Outside; at a [[ or ![[ met while a span is
   open the mode, the output and the lastCopied cursor stay as they are; and
   a span that has met such a marker still closes at the first ]] that
   follows, with a single replacement. *)
C14_InertOpeningMarkers == [][C14_Step]_vars

HasMarker == \E j \in 1..Len(content) : MarkerAt(j)

(* the first opening marker of the text; it is met Outside *)
FirstMarker == CHOOSE k \in 1..Len(content) : MarkerAt(k) /\ \A j \in 1..(k - 1) : ~MarkerAt(j)

(* the text after the first opening marker *)
AfterFirstMarker ==
    SubSeq(content, FirstMarker + (IF content[FirstMarker] = "!" THEN 3 ELSE 2), Len(content))

RECURSIVE WithoutMarkerChars(_)
WithoutMarkerChars(t) ==
    IF t = <<>> THEN <<>>
    ELSE (IF Head(t) = "[" \/ Head(t) = "!" THEN <<>> ELSE <<Head(t)>>)
           \o WithoutMarkerChars(Tail(t))

(* the characters between the first opening marker and the first ]] after it *)
FirstSpanText == SubSeq(AfterFirstMarker, 1, FirstPair(AfterFirstMarker, "]") - 1)

(* the scan is past the ]] that ends the first span *)
PastFirstClose ==
    pos > Len(content) - Len(AfterFirstMarker) + FirstPair(AfterFirstMarker, "]")

(* C15: captured link text. When a span closes, the text used for the
   markup is what lies between the opening marker and the first ]] after
   it, with every [ and every ! removed and the rest kept in order; a single
   ] not followed by another ] does not close the span and is kept. *)
C15_CapturedLinkText ==
    (HasMarker /\ HasPair(AfterFirstMarker, "]") /\ PastFirstClose) =>
        IsPrefix(PrefixBefore(FirstMarker)
                   \o (IF content[FirstMarker] = "!"
                       THEN ExpectedImg(WithoutMarkerChars(FirstSpanText))
                       ELSE ExpectedAnchor(WithoutMarkerChars(FirstSpanText))),
                 new_content)

SingleByte(s) == \A k \in 1..Len(s) : len_utf8(s[k]) = 1

(* C22: an unterminated span loses no text. For single-byte input, when the
   scan ends inside a span (an opening marker was met Outside and no ]]
   follows it), the call returns, and its output is the output for the text
   before that marker followed by the input from the marker on, character
   for character; in particular an input whose only marker is an
   unterminated one is returned unchanged. *)
C22_UnterminatedLosesNoText ==
    (Finished /\ SingleByte(content)) =>
        /\ InSpan =>
               /\ rpc = "done"
               /\ MarkerAt(OpenerAt)
               /\ ~HasPair(SubSeq(content, OpenerAt, Len(content)), "]")
               /\ new_content = rewrite_links(PrefixBefore(OpenerAt))
                                   \o SubSeq(content, OpenerAt, Len(content))
        /\ \A k \in 1..Len(content) :
               (UnterminatedLinkAt(k) \/ UnterminatedAssetAt(k)) =>
                   (InSpan /\ new_content = content)

(* a closed span was rewritten, then an unterminated link kept as it stands *)
C22_Witness ==
    /\ rpc = "done"
    /\ SingleByte(content)
    /\ in_link
    /\ OpenerAt > 1
    /\ new_content # content

(* the scanner's locals are consistent: at most one mode flag is set, no
   link text is held outside a span, the cursor lies within the input *)
ScannerOk(link, asset, text, cursor) ==
    /\ ~(link /\ asset)
    /\ (~link /\ ~asset) => text = <<>>
    /\ cursor >= 0
    /\ cursor <= ByteLen(content)

(* C24: scanner state invariant. Before and after every step of the scan,
   in_link and in_asset are not both true, link_text is empty whenever
   neither is set, and last_index lies within the input; no step moves
   last_index backwards. *)
C24_ScannerInvariant ==
    [][/\ ScannerOk(in_link, in_asset, link_text, last_index)
       /\ ScannerOk(in_link', in_asset', link_text', last_index')
       /\ last_index' >= last_index]_vars

(* mid-scan after a two-byte character: the text before the marker was
   copied, an asset span is open and holds text *)
C24_Witness ==
    /\ rpc = "scan"
    /\ \E k \in 1..Len(content) : content[k] = EAcute
    /\ in_asset
    /\ ~in_link
    /\ link_text # <<>>
    /\ last_index > 0

(***************************************************************************)
(* Statements about the note tree.                                         *)
(***************************************************************************)
Inserted == 1..(tnext - 1)

(* the note as line 69 stores it: its path made relative to the output root *)
Stored(n) == Note(n.title, strip_prefix(n.path, output_dir))

(* the folder names between the output root and the note's file *)
FoldersBelowRoot(n) ==
    LET c == components(n.path)
    IN  SubSeq(c, Len(components(output_dir)) + 1, Len(c) - 1)

HasChild(node, label) == \E k \in 1..Len(node.nodes) : node.nodes[k].title = label

ChildOf(node, label) == node.nodes[CHOOSE k \in 1..Len(node.nodes) : node.nodes[k].title = label]

(* the node reached from `node` by following the labels of `chain`: <<it>>, or <<>> *)
RECURSIVE NodeAt(_, _)
NodeAt(node, chain) ==
    IF chain = <<>> THEN <<node>>
    ELSE IF HasChild(node, Head(chain)) THEN NodeAt(ChildOf(node, Head(chain)), Tail(chain))
    ELSE <<>>

Holds(found, note) ==
    found # <<>> /\ \E k \in 1..Len(found[1].notes) : found[1].notes[k] = note

(* C7: tree placement. For every output root and every note, the note is
   attached to the node reached from the root by following exactly the folder
   names between the output root and the note's file; a note directly in the
   output root is attached to the root node. *)
C7_TreePlacement ==
    \A j \in Inserted :
        Holds(NodeAt(root_node, FoldersBelowRoot(tree_notes[j])), Stored(tree_notes[j]))

RECURSIVE UniqueChildLabels(_)
UniqueChildLabels(node) ==
    /\ \A i, j \in 1..Len(node.nodes) : i # j => node.nodes[i].title # node.nodes[j].title
    /\ \A i \in 1..Len(node.nodes) : UniqueChildLabels(node.nodes[i])

RECURSIVE NodeCount(_)
RECURSIVE NodeCountAll(_)
NodeCount(node) == 1 + NodeCountAll(node.nodes)
NodeCountAll(nodes) ==
    IF nodes = <<>> THEN 0 ELSE NodeCount(Head(nodes)) + NodeCountAll(Tail(nodes))

(* the folder chain the builder walked for each inserted note *)
WalkedChain == [j \in Inserted |-> path_parts(tree_notes[j])]

(* the distinct non-empty folder chains the inserted notes made the builder walk *)
WalkedChains ==
    LET chains == WalkedChain
    IN  UNION {{SubSeq(chains[j], 1, m) : m \in 1..Len(chains[j])} : j \in Inserted}

(* C8: unique child per label. After any sequence of insertions no node has
   two children with the same label, and the tree holds one node per distinct
   folder chain walked: a folder name that already exists among the current
   node's children is descended into and creates no node. *)
C8_UniqueChildPerLabel ==
    /\ UniqueChildLabels(root_node)
    /\ NodeCount(root_node) = 1 + Cardinality(WalkedChains)

(* a second note was inserted below a child that the first one created *)
C8_Witness ==
    /\ tpc = "done"
    /\ \E i \in 1..Len(root_node.nodes) : Len(root_node.nodes[i].notes) >= 2

(* input position of the first inserted note whose chain passes through q; 0 if none *)
FirstUnder(q, chains) ==
    LET S == {j \in DOMAIN chains : IsPrefix(q, chains[j])}
    IN  IF S = {} THEN 0 ELSE CHOOSE j \in S : \A i \in S : j <= i

(* the inserted notes whose chain is exactly q, in input order, as stored *)
RECURSIVE NotesIn(_, _, _)
NotesIn(q, chains, j) ==
    IF j = 0 THEN <<>>
    ELSE NotesIn(q, chains, j - 1)
           \o (IF chains[j] = q THEN <<Stored(tree_notes[j])>> ELSE <<>>)

RECURSIVE FirstSeenOrdered(_, _, _)
FirstSeenOrdered(node, q, chains) ==
    LET first == [i \in 1..Len(node.nodes) |-> FirstUnder(Append(q, node.nodes[i].title), chains)]
    IN  /\ node.notes = NotesIn(q, chains, tnext - 1)
        /\ \A i \in 1..Len(node.nodes) : first[i] > 0
        /\ \A i \in 1..(Len(node.nodes) - 1) : first[i] < first[i + 1]
        /\ \A i \in 1..Len(node.nodes) :
               FirstSeenOrdered(node.nodes[i], Append(q, node.nodes[i].title), chains)

(* C9: first-seen ordering. Within every node the children are ordered by the
   input position of the first note that lies under each child folder, and
   the notes of a node are in the same relative order as in the input; the
   tree is thereby a function of the note sequence. *)
C9_FirstSeenOrder == FirstSeenOrdered(root_node, <<>>, WalkedChain)

(* folder b was seen before folder a, and a holds two different notes *)
C9_Witness ==
    /\ tpc = "done"
    /\ Len(root_node.nodes) = 2
    /\ root_node.nodes[1].title = <<"b">>
    /\ root_node.nodes[2].title = <<"a">>
    /\ Len(root_node.nodes[2].notes) = 2
    /\ root_node.nodes[2].notes[1] # root_node.nodes[2].notes[2]

Max(S) == IF S = {} THEN 0 ELSE CHOOSE x \in S : \A y \in S : y <= x

RECURSIVE Depth(_)
Depth(node) ==
    IF node.nodes = <<>> THEN 0
    ELSE 1 + Max({Depth(node.nodes[i]) : i \in 1..Len(node.nodes)})

(* the label chains, from the root, of the nodes below `node` reached by q *)
RECURSIVE ChainsBelow(_, _)
ChainsBelow(node, q) ==
    UNION {{Append(q, node.nodes[i].title)} \cup ChainsBelow(node.nodes[i], Append(q, node.nodes[i].title))
             : i \in 1..Len(node.nodes)}

(* the folder paths, relative to the output root, that hold an inserted note *)
FoldersWithNotes ==
    UNION {{SubSeq(FoldersBelowRoot(tree_notes[j]), 1, m)
              : m \in 1..Len(FoldersBelowRoot(tree_notes[j]))} : j \in Inserted}

NotesOfFolder(q) == {j \in Inserted : FoldersBelowRoot(tree_notes[j]) = q}

(* C16: tree shape. The depth of the tree is the largest number of folders
   between the output root and any note; the non-root nodes are, one each,
   the folder paths that hold a note in their subtree; and the notes of a
   node are exactly the notes whose containing folder is that node's path. *)
C16_TreeShape ==
    /\ Depth(root_node) = Max({Len(FoldersBelowRoot(tree_notes[j])) : j \in Inserted})
    /\ ChainsBelow(root_node, <<>>) = FoldersWithNotes
    /\ NodeCount(root_node) = 1 + Cardinality(FoldersWithNotes)
    /\ \A q \in FoldersWithNotes \cup {<<>>} :
           LET found == NodeAt(root_node, q)
           IN  /\ found # <<>>
               /\ Len(found[1].notes) = Cardinality(NotesOfFolder(q))
               /\ \A j \in NotesOfFolder(q) : Holds(found, Stored(tree_notes[j]))

(* every note held anywhere in the tree *)
RECURSIVE AllNotes(_)
RECURSIVE AllNotesOf(_)
AllNotes(node) == node.notes \o AllNotesOf(node.nodes)
AllNotesOf(nodes) ==
    IF nodes = <<>> THEN <<>> ELSE AllNotes(Head(nodes)) \o AllNotesOf(Tail(nodes))

(* x is n with its path made relative to the output root *)
IsCopyOf(x, n) ==
    /\ x.title = n.title
    /\ components(output_dir) \o components(x.path) = components(n.path)

(* the first n notes of `list` are held in the tree under `root`, once each *)
CopiedOnce(root, list, n) ==
    LET held == AllNotes(root)
    IN  /\ Len(held) = n
        /\ \A j \in 1..n :
               Cardinality({k \in 1..n : IsCopyOf(held[k], list[j])})
                   = Cardinality({i \in 1..n : list[i] = list[j]})

(* C17: notes are copied, once each. After any number of insertions every
   inserted note occurs in the whole tree exactly as often as in the input
   (the tree holds as many notes as were inserted), with its title unchanged
   and its path made relative to the output root, and the input list is not
   changed by the build. *)
C17_NotesCopiedOnce ==
    [][tree_notes' = tree_notes /\ CopiedOnce(root_node', tree_notes', tnext' - 1)]_vars

(* three notes were inserted, two of them equal, into more than one node *)
C17_Witness ==
    /\ tpc = "done"
    /\ Len(tree_notes) = 3
    /\ tree_notes[1] = tree_notes[3]
    /\ tree_notes[1] # tree_notes[2]
    /\ Len(AllNotes(root_node)) = 3
    /\ Len(root_node.notes) < 3

(***************************************************************************)
(* Statements about the pipeline.                                          *)
(***************************************************************************)
RECURSIVE CountIn(_, _)
CountIn(x, seq) ==
    IF seq = <<>> THEN 0
    ELSE (IF Head(seq) = x THEN 1 ELSE 0) + CountIn(x, Tail(seq))

RECURSIVE Repeat(_, _)
Repeat(x, n) == IF n = 0 THEN <<>> ELSE <<x>> \o Repeat(x, n - 1)

EveryFileProcessed == \A i \in Files : visited[i].outcome = "ok"

(* the notes of the Markdown files processed up to entry i that declare tag t,
   in processing order, each once per declaration *)
RECURSIVE DeclaredUpTo(_, _)
DeclaredUpTo(t, i) ==
    IF i = 0 THEN <<>>
    ELSE DeclaredUpTo(t, i - 1)
           \o (IF visited[i].kind = "file" /\ is_markdown(visited[i].name)
               THEN Repeat(note_of(visited[i]), CountIn(t, declared_tags(visited[i])))
               ELSE <<>>)

TagList(t) == IF t \in DOMAIN tags THEN tags[t] ELSE <<>>

TagNames == {"x", "y", "intro"}

(* C10: tag accumulation. After processing any sequence of Markdown files,
   the list of every tag t holds each note once per declaration of t in the
   note's frontmatter (never for an undeclared tag), in file-processing
   order. *)
C10_TagAccumulation ==
    EveryFileProcessed =>
        /\ DOMAIN tags \subseteq TagNames
        /\ \A t \in TagNames : TagList(t) = DeclaredUpTo(t, Len(visited))

(* a note declaring [x, y] was processed, then another declaring [x, x] *)
C10_Witness ==
    /\ spc = "done"
    /\ DOMAIN tags = {"x", "y"}
    /\ Len(tags["x"]) = 3
    /\ tags["x"][1] # tags["x"][2]
    /\ tags["x"][2] = tags["x"][3]
    /\ tags["y"] = <<tags["x"][1]>>

NotesDir == <<"n", "o", "t", "e", "s">>

IsScenarioA(e) ==
    /\ e.kind = "file" /\ e.dir = NotesDir /\ e.name = <<"a", ".", "m", "d">>
    /\ e.fm = <<AlphaIntro>> /\ e.body = LinkBody

IsScenarioB(e) ==
    /\ e.kind = "file" /\ e.dir = NotesDir /\ e.name = <<"b", ".", "m", "d">>
    /\ e.fm = <<>> /\ e.body = PlainBody

(* the files visited are notes/a.md and notes/b.md of the scenario, in either order *)
ScenarioVault ==
    /\ Cardinality(Files) = 2
    /\ \E i \in Files : IsScenarioA(visited[i])
    /\ \E i \in Files : IsScenarioB(visited[i])

UnderNotes(file) == output_dir \o <<Sep>> \o NotesDir \o <<Sep>> \o file

Contains(s, sub) == \E i \in 1..(Len(s) - Len(sub) + 1) : SubSeq(s, i, i + Len(sub) - 1) = sub

IsWritten(path) == \E k \in 1..Len(written) : written[k] = path

(* the Markdown files whose page reached the template, in processing order *)
ReachedRender(e) ==
    e.kind = "file" /\ is_markdown(e.name) /\ e.outcome \in {"ok", "render", "write"}

RenderedFiles == SelectSeq(visited, ReachedRender)

(* the name without its .md *)
StemOf(name) == SubSeq(name, 1, Len(name) - 3)

ExpectedTitle(e) ==
    IF e.fm # <<>> /\ e.fm[1].title # <<>> THEN e.fm[1].title[1] ELSE StemOf(e.name)

(* C11: end-to-end scenario. For a vault with notes/a.md (title Alpha, tags
   [intro], body [[b]]) and notes/b.md without frontmatter, the run does not
   fail of itself, and once both files are processed notes/a.html is written
   with a body holding an anchor to b.html with visible text b, notes/b.html
   is written with title b, and the tag index has the single key intro,
   mapped to the one-element list holding the Alpha note; every page's title
   is the frontmatter title when present, otherwise the file name stem. *)
C11_EndToEnd ==
    /\ Len(rendered) = Len(RenderedFiles)
    /\ \A k \in 1..Len(rendered) :
           rendered[k].context["title"] = ExpectedTitle(RenderedFiles[k])
    /\ ScenarioVault =>
           /\ \A i \in Files : visited[i].outcome # "panic"
           /\ EveryFileProcessed =>
                  /\ IsWritten(UnderNotes(<<"a", ".", "h", "t", "m", "l">>))
                  /\ IsWritten(UnderNotes(<<"b", ".", "h", "t", "m", "l">>))
                  /\ \A k \in 1..Len(rendered) :
                         /\ rendered[k].path = UnderNotes(<<"a", ".", "h", "t", "m", "l">>) =>
                                Contains(rendered[k].context["content"], ExpectedAnchor(<<"b">>))
                         /\ rendered[k].path = UnderNotes(<<"b", ".", "h", "t", "m", "l">>) =>
                                rendered[k].context["title"] = <<"b">>
                  /\ Len(rendered) = 2
                  /\ DOMAIN tags = {"intro"}
                  /\ tags["intro"] =
                         <<Note(TitleAlpha, UnderNotes(<<"a", ".", "h", "t", "m", "l">>))>>

(* the scenario's run has ended successfully *)
C11_Witness == spc = "done" /\ ScenarioVault

FailureOutcomes == {"read", "frontmatter", "mkdir", "render", "write", "copy"}

FilesBefore(i) == {j \in Files : j < i}

MarkdownBefore(i) == {j \in FilesBefore(i) : is_markdown(visited[j].name)}

IndexPath == output_dir \o <<Sep>> \o <<"index.html">>

(* C12: abort on first failure. When a step of a file fails (unreadable
   file, frontmatter not deserializable, directory not creatable, template
   render failure, write or copy failure) the run has ended with an error:
   the failing file is the last entry visited and the only one that failed,
   the note list holds the notes of the files before it and nothing else,
   the tag index holds nothing declared after it, index.html is not written,
   and the outputs of the files before it are all still there. *)
C12_AbortOnFirstFailure ==
    \A i \in Files :
        visited[i].outcome \in FailureOutcomes =>
            /\ spc = "failed"
            /\ i = Len(visited)
            /\ \A j \in FilesBefore(i) : visited[j].outcome = "ok"
            /\ Len(notes) = Cardinality(MarkdownBefore(i))
            /\ \A j \in MarkdownBefore(i) : \E k \in 1..Len(notes) : notes[k] = note_of(visited[j])
            /\ \A t \in TagNames :
                   TagList(t) \in {DeclaredUpTo(t, i - 1), DeclaredUpTo(t, i)}
            /\ ~IsWritten(IndexPath)
            /\ Len(written) = Cardinality(FilesBefore(i))

(* a page was written, then the write of the next page failed *)
C12_Witness ==
    /\ spc = "failed"
    /\ Len(written) = 1
    /\ Len(visited) >= 2
    /\ visited[Len(visited)].outcome = "write"

(* the output root joined with a vault-relative folder chain and a file name *)
Mirrored(dir, file) ==
    output_dir \o <<Sep>> \o (IF dir = <<>> THEN <<>> ELSE dir \o <<Sep>>) \o file

ExpectedOutput(e) ==
    IF is_markdown(e.name)
    THEN Mirrored(e.dir, StemOf(e.name) \o <<".", "h", "t", "m", "l">>)
    ELSE Mirrored(e.dir, e.name)

(* C13: output mirroring. On a successful run every visited file whose
   extension is md has produced exactly one HTML file, at the output root
   joined with its vault-relative path with the extension replaced by html
   (folder chain and stem unchanged); every other file has been copied to
   the output root joined with its unchanged relative path; each visited
   file went one of the two routes, so besides style.css and index.html
   there is one output per file. *)
C13_OutputMirroring ==
    spc = "done" =>
        /\ \A i \in Files : CountIn(ExpectedOutput(visited[i]), written) = 1
        /\ Len(written) = Cardinality(Files) + 2

IsMarkdownEntry(e) == e.kind = "file" /\ is_markdown(e.name)

MarkdownFiles == SelectSeq(visited, IsMarkdownEntry)

TreeBuilt == root_node # Node(<<>>, <<>>, <<>>)

(* C18: index after all files. The navigation tree is built, and index.html
   written, only when the traversal is over and every file was processed
   successfully, from the complete flat note list: one entry per Markdown
   file, in traversal order, none for assets, all of them in the tree. On a
   successful run index.html has been written exactly once. *)
C18_IndexAfterAllFiles ==
    /\ (TreeBuilt \/ IsWritten(IndexPath)) =>
           /\ spc \in {"done", "failed"}
           /\ EveryFileProcessed
           /\ Len(notes) = Len(MarkdownFiles)
           /\ \A k \in 1..Len(notes) : notes[k].title = ExpectedTitle(MarkdownFiles[k])
           /\ Len(AllNotes(root_node)) = Len(notes)
    /\ spc = "done" => (TreeBuilt /\ CountIn(IndexPath, written) = 1)

(* a run over a note and an asset has ended with the index written *)
C18_Witness ==
    /\ spc = "done"
    /\ Cardinality(Files) = 2
    /\ Len(notes) = 1
    /\ IsWritten(IndexPath)

(* C19: registration follows the write. Per Markdown file the note is
   registered in the flat list and in the tag index only after its HTML file
   has been written: in every reachable state every note in the flat list or
   in a tag list has had its HTML file written. *)
C19_RegistrationFollowsWrite ==
    /\ \A k \in 1..Len(notes) : IsWritten(notes[k].path)
    /\ \A t \in DOMAIN tags : \A k \in 1..Len(tags[t]) : IsWritten(tags[t][k].path)

ContextKeys == {"title", "date", "tags", "relative_path", "content"}

(* C20: page template context. For every Markdown file, with or without a
   frontmatter block, the context handed to the page template holds the
   keys title, date, tags, the root-relative prefix (relative_path) and the
   rendered body (content). *)
C20_PageContextKeys ==
    \A k \in 1..Len(rendered) : ContextKeys \subseteq DOMAIN rendered[k].context

(* the number of folders between the vault root and the file *)
FolderDepth(e) == IF e.dir = <<>> THEN 0 ELSE Len(split(e.dir))

RECURSIVE ExpectedPrefix(_)
ExpectedPrefix(d) ==
    IF d = 0 THEN <<".">>
    ELSE IF d = 1 THEN <<".", ".">>
    ELSE <<".", ".", "/">> \o ExpectedPrefix(d - 1)

(* C21: root-relative prefix. For every output root and every note lying d
   folders below it, the prefix handed to the page template is "." when
   d = 0 and otherwise d copies of ".." joined by "/", so that the prefix
   followed by /style.css names the stylesheet in the output root. *)
C21_RootRelativePrefix ==
    \A k \in 1..Len(rendered) :
        rendered[k].context["relative_path"] = ExpectedPrefix(FolderDepth(RenderedFiles[k]))

(* the paths present in the output tree *)
OutputFiles == {written[k] : k \in 1..Len(written)}

(* C23: no output file is written twice. On a successful run no two writes
   went to the same path: two distinct vault files never share an output path
   (a note and an asset, or two notes whose names differ only by `?`), and no
   vault file lands on style.css or index.html of the output root; so the
   output tree holds as many files as the vault plus two. *)
C23_NoOutputWrittenTwice ==
    spc = "done" =>
        /\ \A j, k \in 1..Len(written) : written[j] = written[k] => j = k
        /\ Cardinality(OutputFiles) = Cardinality(Files) + 2

====
